---- MODULE Spec2Model ----
(***************************************************************************)
(* A model of lfshook (src/lfshook.go): a logrus hook that routes each     *)
(* formatted log entry, by its level, to a file path or to an io.Writer,   *)
(* with optional default destinations, under one mutex.                    *)
(*                                                                         *)
(* The hook is driven by goroutines g \in Procs that call Fire.  Every     *)
(* statement of Fire / ioWrite / fileWrite that touches shared state or    *)
(* the environment is one step, so that concurrent calls interleave where  *)
(* the code lets them.  The setters take no lock (src/lfshook.go:77-97):   *)
(* they configure the hook during setup, before the first Fire call.       *)
(***************************************************************************)
EXTENDS Integers, Sequences, FiniteSets, TLC

(* ------------------------------ bounds -------------------------------- *)

\* Total number of Fire calls in one behaviour.
MaxFires == 2

\* Number of pieces in which a destination may take the bytes of one Write
\* (a Write that fails may have consumed a proper prefix of them).
MsgParts == 2

(* ------------------------------ universe ------------------------------ *)

Procs == {"g1", "g2"}

Levels == {"error", "info"}

Paths == {"logs/error.log", "default.log"}

Writers == {"w1", "w2"}

\* Formatter objects the caller owns, plus the package-level default.
FmtIds == {"defaultFormatter", "textColored", "custom"}

NoPath == ""

NoWriter == "nil"

NoFormatter == "nil"

\* filepath.Dir of the paths above (src/lfshook.go:163).
Dir(path) == IF path = "logs/error.log" THEN "logs" ELSE "."

\* error values returned by Fire
NilErr == "nil"

ErrFormat == "formatter error"

ErrOpen == "open error"

ErrWrite == "write error"

\* The levelMap arguments given to NewHook: nil, a PathMap or a WriterMap,
\* each map empty or with an entry for "error" only, so that every table
\* leaves a level without an entry.
PathMaps == {<<>>, [l \in {"error"} |-> "logs/error.log"]}

WriterMaps == {<<>>, [l \in {"error"} |-> "w1"]}

LevelMaps ==
  {[kind |-> "nil", m |-> <<>>]}
    \cup {[kind |-> "PathMap", m |-> f] : f \in PathMaps}
    \cup {[kind |-> "WriterMap", m |-> f] : f \in WriterMaps}

\* The arguments given to SetDefaultPath and SetDefaultWriter: destinations
\* other than the ones the tables map.
DefaultPaths == {"default.log"}

DefaultWriters == {"w2"}

\* The userFormatter arguments given to NewHook.
UserFormatters == {"nil", "textColored"}

\* A table field of the hook: nil, or a map.
NilTable == [nil |-> TRUE, m |-> <<>>]

Table(f) == [nil |-> FALSE, m |-> f]

(* ------------------------------ state --------------------------------- *)

VARIABLES
  hook,       \* the lfsHook struct (without its lock)
  lock,       \* hook.lock: its holder, or "free"
  fmtObj,     \* the formatter objects (formatters are held by pointer)
  lastSet,    \* history: the argument of the latest SetFormatter call
  wbuf,       \* what each io.Writer has received
  files,      \* the file system: each path's existence and content
  dirs,       \* the directories that exist
  call,       \* each goroutine's Fire call: position, locals, history
  fired       \* number of Fire calls started

vars == <<hook, lock, fmtObj, lastSet, wbuf, files, dirs, call, fired>>

\* var defaultFormatter = &logrus.TextFormatter{DisableColors: true}; the
\* caller's own formatters are a text formatter with colors left on and a
\* formatter of another kind with a flag of the same name.
InitFormatters ==
  [f \in FmtIds |->
     CASE f = "defaultFormatter" -> [kind |-> "text", DisableColors |-> TRUE]
       [] f = "textColored" -> [kind |-> "text", DisableColors |-> FALSE]
       [] OTHER -> [kind |-> "custom", DisableColors |-> FALSE]]

NewHook(levelMap, userFormatter) ==
  [formatter |-> IF userFormatter # NoFormatter THEN userFormatter
                 ELSE "defaultFormatter",
   paths |-> IF levelMap.kind = "PathMap" THEN Table(levelMap.m) ELSE NilTable,
   writers |-> IF levelMap.kind = "WriterMap" THEN Table(levelMap.m) ELSE NilTable,
   defaultPath |-> NoPath,
   defaultWriter |-> NoWriter,
   hasDefaultPath |-> FALSE,
   hasDefaultWriter |-> FALSE]

\* A goroutine that is not inside Fire.
IdleCall ==
  [pc |-> "idle", level |-> "error", id |-> 0, mode |-> "none",
   writer |-> NoWriter, path |-> NoPath, msg |-> <<>>, sent |-> 0,
   fd |-> FALSE, ret |-> NilErr,
   \* history of the call
   target |-> "none", nwrites |-> 0, wmsg |-> <<>>, appended |-> 0,
   consulted |-> {}, opened |-> FALSE, before |-> <<>>,
   failed |-> {}]

Init ==
  /\ \E levelMap \in LevelMaps, userFormatter \in UserFormatters :
       hook = NewHook(levelMap, userFormatter)
  /\ lock = "free"
  /\ fmtObj = InitFormatters
  /\ lastSet = NoFormatter
  /\ wbuf = [w \in Writers |-> <<>>]
  /\ files = [p \in Paths |-> [exists |-> FALSE, content |-> <<>>]]
  /\ dirs = {"."}
  /\ call = [g \in Procs |-> IdleCall]
  /\ fired = 0

\* Setup: no Fire call has been made yet.
Setup == fired = 0 /\ \A g \in Procs : call[g].pc = "idle"

(* ------------------------------ setters ------------------------------- *)

\* A faulty variant: the type switch is left out, the formatter is installed as given.
ForceNoColors_skipped(obj) == obj

\* switch hook.formatter.(type) { case *logrus.TextFormatter: ... = true }
ForceNoColors(obj) ==
  IF obj.kind = "text" THEN [obj EXCEPT !.DisableColors = TRUE] ELSE obj

SetFormatter(f) ==
  /\ Setup
  /\ hook' = [hook EXCEPT !.formatter = f]
  /\ fmtObj' = [fmtObj EXCEPT ![f] = ForceNoColors(fmtObj[f])]
  /\ lastSet' = f
  /\ UNCHANGED <<lock, wbuf, files, dirs, call, fired>>

SetDefaultPath(defaultPath) ==
  /\ Setup
  /\ hook' = [hook EXCEPT !.defaultPath = defaultPath, !.hasDefaultPath = TRUE]
  /\ UNCHANGED <<lock, fmtObj, lastSet, wbuf, files, dirs, call, fired>>

SetDefaultWriter(defaultWriter) ==
  /\ Setup
  /\ hook' = [hook EXCEPT !.defaultWriter = defaultWriter,
                          !.hasDefaultWriter = TRUE]
  /\ UNCHANGED <<lock, fmtObj, lastSet, wbuf, files, dirs, call, fired>>

(* ------------------------------ Fire ---------------------------------- *)

\* A faulty variant: the two tests of Fire in the other order.
Dispatch_pathFirst(h) ==
  IF ~h.paths.nil \/ h.hasDefaultPath THEN "file"
  ELSE IF ~h.writers.nil \/ h.hasDefaultWriter THEN "io"
  ELSE "none"

\* The branch Fire takes (src/lfshook.go:102-108).
Dispatch(h) ==
  IF ~h.writers.nil \/ h.hasDefaultWriter THEN "io"
  ELSE IF ~h.paths.nil \/ h.hasDefaultPath THEN "file"
  ELSE "none"

Fire(g, level) ==
  /\ call[g].pc = "idle"
  /\ fired < MaxFires
  /\ fired' = fired + 1
  /\ LET mode == Dispatch(hook)
         c == [IdleCall EXCEPT !.level = level, !.id = fired + 1, !.mode = mode]
     IN call' = [call EXCEPT ![g] =
                   [c EXCEPT !.pc = CASE mode = "io" -> "ioLock"
                                      [] mode = "file" -> "fileLock"
                                      [] OTHER -> "done"]]
  /\ UNCHANGED <<hook, lock, fmtObj, lastSet, wbuf, files, dirs>>

\* A faulty variant: Lock does not wait for the mutex.
LockFree_ignored == TRUE

\* hook.lock.Lock(): blocks until the mutex is free.
LockFree == lock = "free"

Lock(g) ==
  /\ call[g].pc \in {"ioLock", "fileLock"}
  /\ LockFree
  /\ lock' = g
  /\ call' = [call EXCEPT ![g].pc = IF call[g].pc = "ioLock" THEN "ioLookup"
                                    ELSE "fileLookup"]
  /\ UNCHANGED <<hook, fmtObj, lastSet, wbuf, files, dirs, fired>>

\* hook.formatter.Format(entry): the bytes, as the pieces a destination
\* may take them in; each names its entry and carries the styling.
Format(f, c) ==
  [i \in 1..MsgParts |->
     [id |-> c.id, level |-> c.level, part |-> i,
      colored |-> ~fmtObj[f].DisableColors]]

(* --------------------------- ioWrite ---------------------------------- *)

\* A faulty variant: a level without a writer is dropped, the default writer unused.
ioLookup_noDefault(g) ==
  /\ call[g].pc = "ioLookup"
  /\ LET c == [call[g] EXCEPT !.consulted = @ \cup {"writers"}] IN
       \/ /\ c.level \in DOMAIN hook.writers.m
          /\ call' = [call EXCEPT ![g] =
                        [c EXCEPT !.writer = hook.writers.m[c.level],
                                  !.pc = "ioFormat"]]
       \/ /\ c.level \notin DOMAIN hook.writers.m
          /\ call' = [call EXCEPT ![g] = [c EXCEPT !.ret = NilErr, !.pc = "unlock"]]
  /\ UNCHANGED <<hook, lock, fmtObj, lastSet, wbuf, files, dirs, fired>>

\* writer, ok = hook.writers[entry.Level]; the default; or return nil.
ioLookup(g) ==
  /\ call[g].pc = "ioLookup"
  /\ LET c == [call[g] EXCEPT !.consulted = @ \cup {"writers"}] IN
       \/ /\ c.level \in DOMAIN hook.writers.m
          /\ call' = [call EXCEPT ![g] =
                        [c EXCEPT !.writer = hook.writers.m[c.level],
                                  !.pc = "ioFormat"]]
       \/ /\ c.level \notin DOMAIN hook.writers.m
          /\ hook.hasDefaultWriter
          /\ call' = [call EXCEPT ![g] =
                        [c EXCEPT !.writer = hook.defaultWriter,
                                  !.consulted = @ \cup {"defaultWriter"},
                                  !.pc = "ioFormat"]]
       \/ /\ c.level \notin DOMAIN hook.writers.m
          /\ ~hook.hasDefaultWriter
          /\ call' = [call EXCEPT ![g] = [c EXCEPT !.ret = NilErr, !.pc = "unlock"]]
  /\ UNCHANGED <<hook, lock, fmtObj, lastSet, wbuf, files, dirs, fired>>

\* msg, err = hook.formatter.Format(entry); if err != nil { return err }
ioFormat(g) ==
  /\ call[g].pc = "ioFormat"
  /\ \/ call' = [call EXCEPT ![g].msg = Format(hook.formatter, call[g]),
                             ![g].pc = "ioWrite"]
     \/ call' = [call EXCEPT ![g].ret = ErrFormat,
                             ![g].failed = @ \cup {"format"},
                             ![g].pc = "unlock"]
  /\ UNCHANGED <<hook, lock, fmtObj, lastSet, wbuf, files, dirs, fired>>

\* The call's record when it issues its Write to destination dest.
Issue(c, dest) ==
  IF c.sent = 0
  THEN [c EXCEPT !.nwrites = @ + 1, !.target = dest, !.wmsg = c.msg]
  ELSE c

\* A faulty variant: a failed Write is tried again.
ioWrite_retry(g) ==
  /\ call[g].pc = "ioWrite"
  /\ LET c == Issue(call[g], call[g].writer) IN
       \/ /\ wbuf' = [wbuf EXCEPT ![c.writer] = Append(@, c.msg[c.sent + 1])]
          /\ call' = [call EXCEPT ![g] =
                        [c EXCEPT !.sent = @ + 1, !.appended = @ + 1,
                                  !.ret = NilErr,
                                  !.pc = IF c.sent + 1 = MsgParts THEN "unlock"
                                         ELSE "ioWrite"]]
       \/ /\ wbuf' = wbuf
          /\ c.nwrites < 2
          /\ call' = [call EXCEPT ![g] =
                        [c EXCEPT !.sent = 0, !.failed = @ \cup {"write"}]]
  /\ UNCHANGED <<hook, lock, fmtObj, lastSet, files, dirs, fired>>

\* _, err = writer.Write(msg); return err
\* The writer takes the bytes piece by piece, and may fail at any of them.
ioWrite(g) ==
  /\ call[g].pc = "ioWrite"
  /\ LET c == Issue(call[g], call[g].writer) IN
       \/ /\ wbuf' = [wbuf EXCEPT ![c.writer] = Append(@, c.msg[c.sent + 1])]
          /\ call' = [call EXCEPT ![g] =
                        [c EXCEPT !.sent = @ + 1, !.appended = @ + 1,
                                  !.ret = NilErr,
                                  !.pc = IF c.sent + 1 = MsgParts THEN "unlock"
                                         ELSE "ioWrite"]]
       \/ /\ wbuf' = wbuf
          /\ call' = [call EXCEPT ![g] =
                        [c EXCEPT !.ret = ErrWrite,
                                  !.failed = @ \cup {"write"},
                                  !.pc = "unlock"]]
  /\ UNCHANGED <<hook, lock, fmtObj, lastSet, files, dirs, fired>>

(* --------------------------- fileWrite -------------------------------- *)

\* path, ok = hook.paths[entry.Level]; the default; or return nil.
fileLookup(g) ==
  /\ call[g].pc = "fileLookup"
  /\ LET c == [call[g] EXCEPT !.consulted = @ \cup {"paths"}] IN
       \/ /\ c.level \in DOMAIN hook.paths.m
          /\ call' = [call EXCEPT ![g] =
                        [c EXCEPT !.path = hook.paths.m[c.level],
                                  !.before = files[hook.paths.m[c.level]].content,
                                  !.pc = "fileMkdir"]]
       \/ /\ c.level \notin DOMAIN hook.paths.m
          /\ hook.hasDefaultPath
          /\ call' = [call EXCEPT ![g] =
                        [c EXCEPT !.path = hook.defaultPath,
                                  !.before = files[hook.defaultPath].content,
                                  !.consulted = @ \cup {"defaultPath"},
                                  !.pc = "fileMkdir"]]
       \/ /\ c.level \notin DOMAIN hook.paths.m
          /\ ~hook.hasDefaultPath
          /\ call' = [call EXCEPT ![g] = [c EXCEPT !.ret = NilErr, !.pc = "unlock"]]
  /\ UNCHANGED <<hook, lock, fmtObj, lastSet, wbuf, files, dirs, fired>>

\* os.MkdirAll(dir, os.ModePerm): its error is dropped.
fileMkdir(g) ==
  /\ call[g].pc = "fileMkdir"
  /\ \/ /\ dirs' = dirs \cup {Dir(call[g].path)}
        /\ call' = [call EXCEPT ![g].pc = "fileOpen"]
     \/ /\ Dir(call[g].path) \notin dirs
        /\ dirs' = dirs
        /\ call' = [call EXCEPT ![g].failed = @ \cup {"mkdir"},
                                ![g].pc = "fileOpen"]
  /\ UNCHANGED <<hook, lock, fmtObj, lastSet, wbuf, files, fired>>

\* fd, err = os.OpenFile(path, O_WRONLY|O_APPEND|O_CREATE, 0666)
\* if err != nil { return err }; defer fd.Close()
fileOpen(g) ==
  /\ call[g].pc = "fileOpen"
  /\ \/ /\ Dir(call[g].path) \in dirs
        /\ files' = [files EXCEPT ![call[g].path].exists = TRUE]
        /\ call' = [call EXCEPT ![g].fd = TRUE, ![g].opened = TRUE,
                                ![g].pc = "fileFormat"]
     \/ /\ files' = files
        /\ call' = [call EXCEPT ![g].ret = ErrOpen,
                                ![g].failed = @ \cup {"open"},
                                ![g].pc = "unlock"]
  /\ UNCHANGED <<hook, lock, fmtObj, lastSet, wbuf, dirs, fired>>

\* A faulty variant: fd.Close() is not deferred, and the early return skips it.
fileFormat_skipsClose(g) ==
  /\ call[g].pc = "fileFormat"
  /\ \/ call' = [call EXCEPT ![g].msg = Format(hook.formatter, call[g]),
                             ![g].pc = "fileWrite"]
     \/ call' = [call EXCEPT ![g].ret = ErrFormat,
                             ![g].failed = @ \cup {"format"},
                             ![g].pc = "unlock"]
  /\ UNCHANGED <<hook, lock, fmtObj, lastSet, wbuf, files, dirs, fired>>

\* msg, err = hook.formatter.Format(entry); if err != nil { return err }
fileFormat(g) ==
  /\ call[g].pc = "fileFormat"
  /\ \/ call' = [call EXCEPT ![g].msg = Format(hook.formatter, call[g]),
                             ![g].pc = "fileWrite"]
     \/ call' = [call EXCEPT ![g].ret = ErrFormat,
                             ![g].failed = @ \cup {"format"},
                             ![g].pc = "fileClose"]
  /\ UNCHANGED <<hook, lock, fmtObj, lastSet, wbuf, files, dirs, fired>>

\* A faulty variant: the error of fd.Write is returned.
fileWrite_propagates(g) ==
  /\ call[g].pc = "fileWrite"
  /\ LET c == Issue(call[g], call[g].path) IN
       \/ /\ files' = [files EXCEPT ![c.path].content = Append(@, c.msg[c.sent + 1])]
          /\ call' = [call EXCEPT ![g] =
                        [c EXCEPT !.sent = @ + 1, !.appended = @ + 1,
                                  !.ret = NilErr,
                                  !.pc = IF c.sent + 1 = MsgParts THEN "fileClose"
                                         ELSE "fileWrite"]]
       \/ /\ files' = files
          /\ call' = [call EXCEPT ![g] =
                        [c EXCEPT !.ret = ErrWrite,
                                  !.failed = @ \cup {"fwrite"},
                                  !.pc = "fileClose"]]
  /\ UNCHANGED <<hook, lock, fmtObj, lastSet, wbuf, dirs, fired>>

\* fd.Write(msg); return nil
\* O_APPEND: every piece lands at the end of the file; the error is dropped.
fileWrite(g) ==
  /\ call[g].pc = "fileWrite"
  /\ LET c == Issue(call[g], call[g].path) IN
       \/ /\ files' = [files EXCEPT ![c.path].content = Append(@, c.msg[c.sent + 1])]
          /\ call' = [call EXCEPT ![g] =
                        [c EXCEPT !.sent = @ + 1, !.appended = @ + 1,
                                  !.ret = NilErr,
                                  !.pc = IF c.sent + 1 = MsgParts THEN "fileClose"
                                         ELSE "fileWrite"]]
       \/ /\ files' = files
          /\ call' = [call EXCEPT ![g] =
                        [c EXCEPT !.ret = NilErr,
                                  !.failed = @ \cup {"fwrite"},
                                  !.pc = "fileClose"]]
  /\ UNCHANGED <<hook, lock, fmtObj, lastSet, wbuf, dirs, fired>>

\* the deferred fd.Close()
fileClose(g) ==
  /\ call[g].pc = "fileClose"
  /\ call' = [call EXCEPT ![g].fd = FALSE, ![g].pc = "unlock"]
  /\ UNCHANGED <<hook, lock, fmtObj, lastSet, wbuf, files, dirs, fired>>

(* --------------------------- return ----------------------------------- *)

\* A faulty variant: Unlock is not deferred, and the early returns skip it.
Unlock_notOnEarlyReturn(g) ==
  /\ call[g].pc = "unlock"
  /\ lock' = IF call[g].nwrites = 0 THEN lock ELSE "free"
  /\ call' = [call EXCEPT ![g] = IdleCall]
  /\ UNCHANGED <<hook, fmtObj, lastSet, wbuf, files, dirs, fired>>

\* The deferred hook.lock.Unlock() runs with the result already set; Fire
\* then returns it to the caller, who goes on.
Unlock(g) ==
  /\ call[g].pc = "unlock"
  /\ lock' = "free"
  /\ call' = [call EXCEPT ![g] = IdleCall]
  /\ UNCHANGED <<hook, fmtObj, lastSet, wbuf, files, dirs, fired>>

\* Fire's last line, return nil, with no destination of either kind: the
\* caller takes the result and goes on.
Return(g) ==
  /\ call[g].pc = "done"
  /\ call' = [call EXCEPT ![g] = IdleCall]
  /\ UNCHANGED <<hook, lock, fmtObj, lastSet, wbuf, files, dirs, fired>>

(* --------------------------- specification ---------------------------- *)

Step(g) ==
  \/ Lock(g)
  \/ ioLookup(g)
  \/ ioFormat(g)
  \/ ioWrite(g)
  \/ fileLookup(g)
  \/ fileMkdir(g)
  \/ fileOpen(g)
  \/ fileFormat(g)
  \/ fileWrite(g)
  \/ fileClose(g)
  \/ Unlock(g)

Next ==
  \/ \E f \in FmtIds : SetFormatter(f)
  \/ \E path \in DefaultPaths : SetDefaultPath(path)
  \/ \E w \in DefaultWriters : SetDefaultWriter(w)
  \/ \E g \in Procs, level \in Levels : Fire(g, level)
  \/ \E g \in Procs : Step(g)
  \/ \E g \in Procs : Return(g)

Spec == Init /\ [][Next]_vars

\* The hooks that keep the formatter NewHook gives them by default: which
\* formatter renders the entry has no part in the locking.
FairInit == Init /\ hook.formatter = "defaultFormatter"

FairNext ==
  \/ \E path \in DefaultPaths : SetDefaultPath(path)
  \/ \E w \in DefaultWriters : SetDefaultWriter(w)
  \/ \E g \in Procs, level \in Levels : Fire(g, level)
  \/ \E g \in Procs : Step(g)
  \/ \E g \in Procs : Return(g)

\* Every goroutine inside Fire keeps running: each I/O call returns, and
\* sync.Mutex hands the lock to a goroutine that waits for it.
FairSpec ==
  /\ FairInit
  /\ [][FairNext]_vars
  /\ \A g \in Procs : WF_vars(Step(g))
  /\ \A g \in Procs : SF_vars(Lock(g))

(* ------------------------- reading the state -------------------------- *)

\* Fire's result is set and Fire is about to hand it to the caller (in the
\* locked modes the deferred calls have run up to the Unlock).
Returning(g) == call[g].pc \in {"unlock", "done"}

InFire(g) == call[g].pc # "idle"

Waiting(g) == call[g].pc \in {"ioLock", "fileLock"}

\* Between Lock and Unlock: the lookup-format-write section.
InCritical(g) ==
  call[g].pc \in {"ioLookup", "ioFormat", "ioWrite", "fileLookup", "fileMkdir",
                  "fileOpen", "fileFormat", "fileWrite", "fileClose", "unlock"}

\* The hook's routing table (NewHook sets one of the two at most).
Mapped(level) == level \in DOMAIN hook.paths.m \cup DOMAIN hook.writers.m

MappedDest(level) ==
  IF level \in DOMAIN hook.writers.m THEN hook.writers.m[level]
  ELSE hook.paths.m[level]

WriterSignal == ~hook.writers.nil \/ hook.hasDefaultWriter

PathSignal == ~hook.paths.nil \/ hook.hasDefaultPath

Defaults == {"defaultPath", "defaultWriter"}

\* The default destinations that have been configured.
DefaultDests ==
  (IF hook.hasDefaultWriter THEN {hook.defaultWriter} ELSE {})
    \cup (IF hook.hasDefaultPath THEN {hook.defaultPath} ELSE {})

\* Every destination's content.
Contents == {wbuf[w] : w \in Writers} \cup {files[p].content : p \in Paths}

\* s is whole entries one after the other.
WholeEntries(s) ==
  /\ Len(s) % MsgParts = 0
  /\ \A i \in 1..Len(s) :
       /\ s[i].part = ((i - 1) % MsgParts) + 1
       /\ s[i].part > 1 => s[i].id = s[i - 1].id

\* s is runs one after the other, each the pieces 1..k of one entry in order.
Contiguous(s) ==
  \A i \in 1..Len(s) :
    /\ s[i].part \in 1..MsgParts
    /\ s[i].part > 1 =>
         /\ i > 1
         /\ s[i - 1].id = s[i].id
         /\ s[i - 1].part = s[i].part - 1
    /\ \A j \in 1..Len(s) : (s[j].id = s[i].id /\ s[j].part = s[i].part) => j = i

(* ------------------------------ claims -------------------------------- *)

\* C1 (as stated): whatever the table and the defaults set, a Fire that
\* succeeds for an entry whose level the routing table maps has written the
\* formatted bytes to the mapped destination and has used no default.
C1_MappedDestinationWins ==
  \A g \in Procs :
    (Returning(g) /\ Mapped(call[g].level) /\ call[g].ret = NilErr) =>
      /\ call[g].nwrites = 1
      /\ call[g].target = MappedDest(call[g].level)
      /\ call[g].wmsg = Format(hook.formatter, call[g])
      /\ call[g].consulted \cap Defaults = {}

\* C2 (as stated): a Fire that succeeds for an entry whose level the routing
\* table does not map has written the formatted bytes to a configured
\* default when there is one, and has written nothing when there is none.
C2_DefaultOrNothing ==
  \A g \in Procs :
    (Returning(g) /\ ~Mapped(call[g].level)) =>
      IF DefaultDests # {}
      THEN call[g].ret = NilErr =>
             /\ call[g].nwrites = 1
             /\ call[g].target \in DefaultDests
             /\ call[g].wmsg = Format(hook.formatter, call[g])
      ELSE call[g].ret = NilErr /\ call[g].nwrites = 0 /\ call[g].appended = 0

C4_AtMostOneWrite ==
  \A g \in Procs :
    /\ call[g].nwrites <= 1
    /\ call[g].appended <= MsgParts
    /\ call[g].nwrites = 0 => (call[g].appended = 0 /\ call[g].target = "none")
    /\ call[g].nwrites = 1 =>
         \/ call[g].mode = "io" /\ call[g].target \in Writers /\ ~call[g].opened
         \/ call[g].mode = "file" /\ call[g].target \in Paths

C4_Witness ==
  \E g \in Procs :
    /\ Returning(g)
    /\ call[g].nwrites = 1
    /\ "write" \in call[g].failed

\* C5 (as stated): at most one call is in the lookup-format-write section,
\* and once no call is in it every destination holds whole formatted
\* entries one after the other.
C5_WholeEntriesOnly ==
  /\ Cardinality({g \in Procs : InCritical(g)}) <= 1
  /\ (\A g \in Procs : ~InCritical(g)) => \A s \in Contents : WholeEntries(s)

\* C5 (amended): at most one call is in the lookup-format-write section, and
\* every destination holds runs one after the other, each run the pieces of
\* one entry in order from the first (all of them, or a leading part when
\* the Write failed part-way or is still going on); runs of two entries are
\* never interleaved.
C5_NoInterleaving ==
  /\ Cardinality({g \in Procs : InCritical(g)}) <= 1
  /\ \A g \in Procs : InCritical(g) <=> lock = g
  /\ \A s \in Contents : Contiguous(s)

C5_Witness ==
  \E g, h \in Procs :
    /\ Waiting(g)
    /\ call[h].pc \in {"ioWrite", "fileWrite"}
    /\ call[h].sent = 1
    /\ \E s \in Contents : Len(s) = 1 /\ s[1].id = call[h].id

\* C6: Fire returns an error exactly when the formatter failed, the file
\* open failed or the writer's Write failed, and the error is that one; a
\* failed MkdirAll, a failed file Write and no destination give nil.
C6_ErrorsReturned ==
  \A g \in Procs :
    Returning(g) =>
      /\ call[g].ret # NilErr <=> call[g].failed \cap {"format", "open", "write"} # {}
      /\ "format" \in call[g].failed => call[g].ret = ErrFormat
      /\ "open" \in call[g].failed => call[g].ret = ErrOpen
      /\ "write" \in call[g].failed => call[g].ret = ErrWrite
      /\ Cardinality(call[g].failed \cap {"format", "open", "write"}) <= 1

C6_Witness ==
  \E g \in Procs :
    /\ Returning(g)
    /\ "fwrite" \in call[g].failed
    /\ call[g].ret = NilErr

\* C7: after SetFormatter(f) the hook's formatter is f; a text formatter has
\* DisableColors set and is otherwise as the caller made it, a formatter of
\* another kind is as the caller made it.
C7_ColorsDisabled ==
  lastSet # NoFormatter =>
    /\ hook.formatter = lastSet
    /\ fmtObj[lastSet] =
         IF InitFormatters[lastSet].kind = "text"
         THEN [InitFormatters[lastSet] EXCEPT !.DisableColors = TRUE]
         ELSE InitFormatters[lastSet]

C7_Witness ==
  /\ lastSet = "textColored"
  /\ ~InitFormatters["textColored"].DisableColors
  /\ fmtObj["textColored"].DisableColors
  /\ \E g \in Procs : Returning(g) /\ call[g].appended = MsgParts

C9_LockReleased ==
  /\ []((\A g \in Procs : ~InCritical(g)) => lock = "free")
  /\ \A g \in Procs : Waiting(g) ~> ~InFire(g)

C9_Witness ==
  \E g, h \in Procs :
    /\ Waiting(g)
    /\ lock = h
    /\ call[h].pc = "unlock"
    /\ call[h].failed # {}

\* C10: in file mode, when the formatter fails, Fire returns the formatter's
\* error with the file opened (created if need be) and closed again, and
\* the file's content as it was before the call.
C10_FormatFailureLeavesFile ==
  \A g \in Procs :
    (Returning(g) /\ call[g].mode = "file" /\ "format" \in call[g].failed) =>
      /\ call[g].ret = ErrFormat
      /\ call[g].opened
      /\ files[call[g].path].exists
      /\ files[call[g].path].content = call[g].before
      /\ call[g].nwrites = 0
      /\ ~call[g].fd

C10_Witness ==
  \E g \in Procs :
    /\ Returning(g)
    /\ call[g].mode = "file"
    /\ "format" \in call[g].failed
    /\ call[g].before # <<>>

====
